---- MODULE Spec2Model ----
(***************************************************************************)
(* A model of the notebook embedding transformer of src/notebook.ts:       *)
(* the per-link tasks of htmlPlugins (cache lookup, download, cache        *)
(* write-through, rendering, icon resolution, node mutation), the cache    *)
(* directory they share, and the Promise.all barrier of the transform.     *)
(*                                                                         *)
(* The string operations of the source (endsWith, includes, replace,       *)
(* base64) are computed on sequences of one-character strings; Chars gives *)
(* the characters of each string the model uses and Str joins them back.   *)
(***************************************************************************)
EXTENDS Integers, Sequences, FiniteSets, TLC

(***************************************************************************)
(* Characters and string operations                                        *)
(***************************************************************************)

\* The printable ASCII characters, code 32 to code 126, in code order (the
\* grave accent, code 96, is written by name).
Ascii ==
  <<" ", "!", "\"", "#", "$", "%", "&", "'", "(", ")", "*", "+", ",", "-", ".", "/",
    "0", "1", "2", "3", "4", "5", "6", "7", "8", "9", ":", ";", "<", "=", ">", "?",
    "@", "A", "B", "C", "D", "E", "F", "G", "H", "I", "J", "K", "L", "M", "N", "O",
    "P", "Q", "R", "S", "T", "U", "V", "W", "X", "Y", "Z", "[", "\\", "]", "^", "_",
    "grave", "a", "b", "c", "d", "e", "f", "g", "h", "i", "j", "k", "l", "m", "n", "o",
    "p", "q", "r", "s", "t", "u", "v", "w", "x", "y", "z", "{", "|", "}", "~">>

\* The byte of a character (its UTF-8 encoding, one byte for ASCII).
Ord(c) == 31 + (CHOOSE i \in 1..Len(Ascii) : Ascii[i] = c)

\* String.prototype.startsWith at a position: pat occurs in s at index i.
OccursAt(s, pat, i) ==
  /\ i >= 1
  /\ i + Len(pat) - 1 <= Len(s)
  /\ \A k \in 1..Len(pat) : s[i + k - 1] = pat[k]

\* String.prototype.indexOf, 1-based; 0 when pat does not occur.
IndexOf(s, pat) ==
  IF \E i \in 1..(Len(s) + 1) : OccursAt(s, pat, i)
  THEN CHOOSE i \in 1..(Len(s) + 1) :
         /\ OccursAt(s, pat, i)
         /\ \A j \in 1..(i - 1) : ~OccursAt(s, pat, j)
  ELSE 0

\* String.prototype.includes
Includes(s, pat) == IndexOf(s, pat) # 0

\* String.prototype.endsWith
EndsWith(s, suffix) ==
  /\ Len(suffix) <= Len(s)
  /\ OccursAt(s, suffix, Len(s) - Len(suffix) + 1)

\* String.prototype.replace with a string pattern: the first occurrence only.
ReplaceFirst(s, pat, rep) ==
  LET i == IndexOf(s, pat)
  IN  IF i = 0 THEN s
      ELSE SubSeq(s, 1, i - 1) \o rep \o SubSeq(s, i + Len(pat), Len(s))

\* String.prototype.split('/').pop(): the text after the last slash.
RECURSIVE LastSegment(_)
LastSegment(s) ==
  LET i == IndexOf(s, <<"/">>)
  IN  IF i = 0 THEN s ELSE LastSegment(SubSeq(s, i + 1, Len(s)))

(***************************************************************************)
(* The strings of the model and their characters                           *)
(***************************************************************************)

\* The links of the sample trees.
GithubBlobLink == "https://github.com/o/r/blob/m/a.ipynb"  \* the hosting web UI
RawLink == "https://raw.githubusercontent.com/o/r/m/a.ipynb"  \* already raw
MirrorLink == "https://x.org/github.com/b.ipynb"  \* another host, github.com in its path
OtherLink == "https://x.org/n.ipynb"  \* another host
RelativeLink == "nb/c.ipynb"  \* a relative link
HtmlLink == "https://x.org/n.html"  \* not a notebook link
QueryLink == "https://x.org/?a.ipynb"  \* a query string that names a notebook
AngleLink == "https://x.org/>a.ipynb"  \* QueryLink with one character changed
UpperLink == "https://x.org/N.IPYNB"  \* the suffix in upper case
VersionLink == "https://x.org/n.ipynb?v=1"  \* a notebook with a query string

Links ==
  {GithubBlobLink, RawLink, MirrorLink, OtherLink, RelativeLink, HtmlLink,
   QueryLink, AngleLink, UpperLink, VersionLink}

\* The characters of each string that the model takes apart.
CharTable ==
  ("" :> <<>>) @@
  ("https://github.com/o/r/blob/m/a.ipynb" :>
    <<"h", "t", "t", "p", "s", ":", "/", "/", "g", "i", "t", "h", "u", "b", ".",
      "c", "o", "m", "/", "o", "/", "r", "/", "b", "l", "o", "b", "/", "m", "/",
      "a", ".", "i", "p", "y", "n", "b">>) @@
  ("https://raw.githubusercontent.com/o/r/m/a.ipynb" :>
    <<"h", "t", "t", "p", "s", ":", "/", "/", "r", "a", "w", ".", "g", "i", "t",
      "h", "u", "b", "u", "s", "e", "r", "c", "o", "n", "t", "e", "n", "t", ".",
      "c", "o", "m", "/", "o", "/", "r", "/", "m", "/", "a", ".", "i", "p", "y",
      "n", "b">>) @@
  ("https://x.org/github.com/b.ipynb" :>
    <<"h", "t", "t", "p", "s", ":", "/", "/", "x", ".", "o", "r", "g", "/", "g",
      "i", "t", "h", "u", "b", ".", "c", "o", "m", "/", "b", ".", "i", "p", "y",
      "n", "b">>) @@
  ("https://x.org/n.ipynb" :>
    <<"h", "t", "t", "p", "s", ":", "/", "/", "x", ".", "o", "r", "g", "/", "n",
      ".", "i", "p", "y", "n", "b">>) @@
  ("nb/c.ipynb" :>
    <<"n", "b", "/", "c", ".", "i", "p", "y", "n", "b">>) @@
  ("https://x.org/n.html" :>
    <<"h", "t", "t", "p", "s", ":", "/", "/", "x", ".", "o", "r", "g", "/", "n",
      ".", "h", "t", "m", "l">>) @@
  ("https://x.org/?a.ipynb" :>
    <<"h", "t", "t", "p", "s", ":", "/", "/", "x", ".", "o", "r", "g", "/", "?",
      "a", ".", "i", "p", "y", "n", "b">>) @@
  ("https://x.org/>a.ipynb" :>
    <<"h", "t", "t", "p", "s", ":", "/", "/", "x", ".", "o", "r", "g", "/", ">",
      "a", ".", "i", "p", "y", "n", "b">>) @@
  ("https://x.org/N.IPYNB" :>
    <<"h", "t", "t", "p", "s", ":", "/", "/", "x", ".", "o", "r", "g", "/", "N",
      ".", "I", "P", "Y", "N", "B">>) @@
  ("https://x.org/n.ipynb?v=1" :>
    <<"h", "t", "t", "p", "s", ":", "/", "/", "x", ".", "o", "r", "g", "/", "n",
      ".", "i", "p", "y", "n", "b", "?", "v", "=", "1">>) @@
  ("16x16" :>
    <<"1", "6", "x", "1", "6">>) @@
  ("32x32" :>
    <<"3", "2", "x", "3", "2">>) @@
  ("64x64" :>
    <<"6", "4", "x", "6", "4">>) @@
  ("16x16 32x32" :>
    <<"1", "6", "x", "1", "6", " ", "3", "2", "x", "3", "2">>) @@
  ("any" :>
    <<"a", "n", "y">>) @@
  ("# Title" :>
    <<"#", " ", "T", "i", "t", "l", "e">>) @@
  ("print(1)" :>
    <<"p", "r", "i", "n", "t", "(", "1", ")">>) @@
  ("1\n" :>
    <<"1", "\n">>) @@
  ("x" :>
    <<"x">>) @@
  ("a<b" :>
    <<"a", "<", "b">>) @@
  ("&\"c'" :>
    <<"&", "\"", "c", "'">>) @@
  ("<script>&\"'</script>" :>
    <<"<", "s", "c", "r", "i", "p", "t", ">", "&", "\"", "'", "<", "/", "s", "c",
      "r", "i", "p", "t", ">">>) @@
  ("E<1>" :>
    <<"E", "<", "1", ">">>) @@
  ("at &amp; b" :>
    <<"a", "t", " ", "&", "a", "m", "p", ";", " ", "b">>)

Chars(s) == CharTable[s]

\* The string of a sequence of characters.
RECURSIVE Str(_)
Str(q) == IF Len(q) = 0 THEN "" ELSE Head(q) \o Str(Tail(q))

(***************************************************************************)
(* Text constants of the source                                            *)
(***************************************************************************)

IpynbSuffix == <<".", "i", "p", "y", "n", "b">>
GithubHost == <<"g", "i", "t", "h", "u", "b", ".", "c", "o", "m">>
RawHost ==
  <<"r", "a", "w", ".", "g", "i", "t", "h", "u", "b", "u", "s", "e", "r",
    "c", "o", "n", "t", "e", "n", "t", ".", "c", "o", "m">>
BlobSegment == <<"/", "b", "l", "o", "b", "/">>
Slash == <<"/">>

(***************************************************************************)
(* Buffer.from(url).toString('base64') and the cache key                   *)
(***************************************************************************)

Base64Alphabet ==
  <<"A", "B", "C", "D", "E", "F", "G", "H", "I", "J", "K", "L", "M", "N", "O", "P",
    "Q", "R", "S", "T", "U", "V", "W", "X", "Y", "Z", "a", "b", "c", "d", "e", "f",
    "g", "h", "i", "j", "k", "l", "m", "n", "o", "p", "q", "r", "s", "t", "u", "v",
    "w", "x", "y", "z", "0", "1", "2", "3", "4", "5", "6", "7", "8", "9", "+", "/">>

\* The base64 digit of a six-bit value.
B64(n) == Base64Alphabet[n + 1]

\* Base64 of a byte sequence: three bytes make four digits, a tail of one or
\* two bytes is padded with "=".
RECURSIVE Base64(_)
Base64(bytes) ==
  IF Len(bytes) = 0 THEN <<>>
  ELSE IF Len(bytes) = 1 THEN
    <<B64(bytes[1] \div 4), B64((bytes[1] % 4) * 16), "=", "=">>
  ELSE IF Len(bytes) = 2 THEN
    <<B64(bytes[1] \div 4),
      B64((bytes[1] % 4) * 16 + bytes[2] \div 16),
      B64((bytes[2] % 16) * 4), "=">>
  ELSE
    <<B64(bytes[1] \div 4),
      B64((bytes[1] % 4) * 16 + bytes[2] \div 16),
      B64((bytes[2] % 16) * 4 + bytes[3] \div 64),
      B64(bytes[3] % 64)>> \o Base64(SubSeq(bytes, 4, Len(bytes)))

\* Buffer.from(url): the bytes of the characters.
BufferFrom(s) == [i \in 1..Len(s) |-> Ord(s[i])]

\* .replace(/[/+=]/g, '_')
ReplaceUnsafe(b) == [i \in 1..Len(b) |-> IF b[i] \in {"/", "+", "="} THEN "_" ELSE b[i]]

\* const urlHash = Buffer.from(url).toString('base64').replace(/[/+=]/g, '_')
urlHash(url) == Str(ReplaceUnsafe(Base64(BufferFrom(Chars(url)))))

\* const cachePath = path.join(opts.cacheDir, `${urlHash}.json`): the file
\* name within the cache directory, which is the same for every link.  The
\* names of the sample links are computed once.
CachePaths == [u \in Links |-> urlHash(u) \o ".json"]
cachePath(url) == CachePaths[url]

(***************************************************************************)
(* new URL(s): the parts of an absolute http(s) URL                        *)
(***************************************************************************)

SchemeSep == <<":", "/", "/">>
HttpScheme == <<"h", "t", "t", "p", ":">>
HttpsScheme == <<"h", "t", "t", "p", "s", ":">>

\* url.protocol, the scheme with its colon (empty when s has no "://").
UrlProtocol(s) ==
  LET i == IndexOf(s, SchemeSep) IN IF i = 0 THEN <<>> ELSE SubSeq(s, 1, i)

\* url.hostname: the text between "://" and the next "/", "?" or "#".
RECURSIVE TakeHost(_)
TakeHost(s) ==
  IF Len(s) = 0 \/ s[1] \in {"/", "?", "#"} THEN <<>>
  ELSE <<s[1]>> \o TakeHost(Tail(s))

UrlHostname(s) ==
  LET i == IndexOf(s, SchemeSep)
  IN  IF i = 0 THEN <<>> ELSE TakeHost(SubSeq(s, i + 3, Len(s)))

\* new URL(s) without a base URL returns (TRUE) or throws a TypeError (FALSE):
\* it returns for an absolute http(s) URL with a host, and throws for a
\* relative reference.
IsAbsoluteUrl(s) ==
  /\ UrlProtocol(s) \in {HttpScheme, HttpsScheme}
  /\ Len(UrlHostname(s)) > 0

\* The links new URL accepts.
Urls == {u \in Links : IsAbsoluteUrl(Chars(u))}
IsUrl(sourceUrl) == sourceUrl \in Urls

\* new URL(sourceUrl).hostname and .protocol, for a string new URL accepts.
Hostnames == [u \in Links |-> Str(UrlHostname(Chars(u)))]
hostname(sourceUrl) == Hostnames[sourceUrl]
Protocols == [u \in Links |-> Str(UrlProtocol(Chars(u)))]
protocol(sourceUrl) == Protocols[sourceUrl]

(***************************************************************************)
(* downloadNotebook: the URL that is fetched                               *)
(***************************************************************************)

\* let rawUrl = url; if (url.includes('github.com') &&
\* !url.includes('raw.githubusercontent.com')) rawUrl = url.replace(..).replace(..)
RawUrlChars(url) ==
  IF Includes(url, GithubHost) /\ ~Includes(url, RawHost)
  THEN ReplaceFirst(ReplaceFirst(url, GithubHost, RawHost), BlobSegment, Slash)
  ELSE url

RawUrls == [u \in Links |-> Str(RawUrlChars(Chars(u)))]
rawUrl(url) == RawUrls[url]

\* fetch(rawUrl) can reach a server: it throws on a string that is no URL.
Fetchable == {u \in Links : IsAbsoluteUrl(RawUrlChars(Chars(u)))}
CanFetch(url) == url \in Fetchable

(***************************************************************************)
(* JSON values: what JSON.parse returns for a response body or a cache     *)
(* file.  A value is null, or an object that has or lacks a cells array    *)
(* (the cast to NotebookData validates nothing).                           *)
(***************************************************************************)

\* A JSON value read as text: an array of fragments, a string, or nothing at
\* all (the property is missing).
Fragments(parts) == [kind |-> "array", parts |-> parts]
Plain(text) == [kind |-> "string", parts |-> <<text>>]
Undefined == [kind |-> "undefined", parts |-> <<>>]

\* execution_count?: number | null
Count(n) == [kind |-> "number", value |-> n]
NullCount == [kind |-> "null", value |-> 0]
NoCount == [kind |-> "undefined", value |-> 0]

\* An output of a code cell.  data is the MIME mapping, its keys in the order
\* the document has them.
Output(type, text, hasData, data, hasTraceback, traceback) ==
  [output_type |-> type, text |-> text, hasData |-> hasData, data |-> data,
   hasTraceback |-> hasTraceback, traceback |-> traceback]
Stream(text) == Output("stream", text, FALSE, <<>>, FALSE, <<>>)
Result(type, data) == Output(type, Undefined, TRUE, data, FALSE, <<>>)
Mime(key, value) == [key |-> key, value |-> value]

StreamOutput == Stream(Fragments(<<"1\n">>))
MarkupStreamOutput == Stream(Plain("<script>&\"'</script>"))
NoTextStreamOutput == Stream(Undefined)
AllMimeOutput ==
  Result("display_data",
         <<Mime("text/html", Plain("<b>hi</b>")), Mime("image/png", Plain("iVBOR")),
           Mime("text/plain", Fragments(<<"a<b", "&\"c'">>))>>)
TextOnlyOutput == Result("execute_result", <<Mime("text/plain", Plain("at &amp; b"))>>)
ImageHtmlOutput ==
  Result("execute_result",
         <<Mime("image/png", Plain("iVBOR")), Mime("text/html", Fragments(<<"<b>hi</b>">>))>>)
EmptyTextOutput ==
  Result("execute_result",
         <<Mime("text/plain", Plain("")), Mime("text/html", Plain("<b>hi</b>"))>>)
NoDataOutput == Output("display_data", Undefined, FALSE, <<>>, FALSE, <<>>)
ErrorOutput == Output("error", Undefined, FALSE, <<>>, TRUE, <<"E<1>", "at &amp; b">>)
NoTracebackOutput == Output("error", Undefined, FALSE, <<>>, FALSE, <<>>)
WidgetOutput == Output("widget", Undefined, FALSE, <<>>, FALSE, <<>>)

\* A cell of a notebook (interface NotebookCell); outputs may be missing.
Cell(type, source, count, hasOutputs, outputs) ==
  [cell_type |-> type, source |-> source, execution_count |-> count,
   hasOutputs |-> hasOutputs, outputs |-> outputs]

\* The two cells of the end-to-end scenario.
MarkdownCell == Cell("markdown", Fragments(<<"# Title">>), NoCount, FALSE, <<>>)
CodeCell == Cell("code", Fragments(<<"print(1)">>), Count(1), TRUE, <<StreamOutput>>)

\* Further cells: markdown with markup characters; code cells that were not
\* run (null, or no count at all), with and without outputs; a cell of
\* another type; cells without a source; a cell whose stream output has no
\* text; and a cell with outputs of every kind.
MarkupCell == Cell("markdown", Fragments(<<"a<b", "&\"c'">>), NoCount, FALSE, <<>>)
NotRunCell == Cell("code", Plain("x"), NullCount, FALSE, <<>>)
NoCountCell == Cell("code", Plain("<script>&\"'</script>"), NoCount, TRUE, <<AllMimeOutput>>)
NoOutputsCell == Cell("code", Plain("x"), Count(5), TRUE, <<>>)
RawCell == Cell("raw", Plain("x"), NoCount, FALSE, <<>>)
NoSourceCodeCell == Cell("code", Undefined, Count(3), FALSE, <<>>)
NoSourceMarkdownCell == Cell("markdown", Undefined, NoCount, FALSE, <<>>)
NoTextStreamCell == Cell("code", Plain("x"), Count(4), TRUE, <<NoTextStreamOutput>>)
OutputsCell ==
  Cell("code", Plain("x"), Count(2), TRUE,
       <<MarkupStreamOutput, TextOnlyOutput, NoDataOutput, ErrorOutput, ImageHtmlOutput,
         NoTracebackOutput, WidgetOutput, EmptyTextOutput>>)

SampleCells ==
  {MarkdownCell, CodeCell, MarkupCell, NotRunCell, NoCountCell, NoOutputsCell, RawCell,
   NoSourceCodeCell, NoSourceMarkdownCell, NoTextStreamCell, OutputsCell}

\* JavaScript null: what downloadNotebook and loadCachedNotebook return on
\* failure, and what the JSON text null parses to.
Null == [type |-> "null", hasCells |-> FALSE, cells |-> <<>>]
\* The JSON text {}: parses, is truthy, and has no cells.
EmptyObject == [type |-> "object", hasCells |-> FALSE, cells |-> <<>>]
\* A notebook document.
NbA == [type |-> "object", hasCells |-> TRUE, cells |-> <<MarkdownCell, CodeCell>>]

\* Another notebook document.
NbB == [type |-> "object", hasCells |-> TRUE, cells |-> <<NotRunCell>>]

\* The values a response body can parse to.
JsonValues == {Null, EmptyObject, NbA}

\* The notebooks of one or two sample cells.
RenderDocs ==
  {[type |-> "object", hasCells |-> TRUE, cells |-> <<c>>] : c \in SampleCells}
    \cup {[type |-> "object", hasCells |-> TRUE, cells |-> <<c, d>>] :
             c \in SampleCells, d \in SampleCells}

\* JavaScript truthiness, as in if (notebook) and !notebook.
Truthy(v) == v.type = "object"

\* A notebook document of the declared shape.
IsNotebook(v) == v.type = "object" /\ v.hasCells

(***************************************************************************)
(* Nodes of the content tree (hast Element)                                *)
(***************************************************************************)

\* The rendered fragment before anything is rendered.
NoHtml == [sourceUrl |-> "", notebookName |-> "", faviconUrl |-> "",
           siteName |-> "", cells |-> <<>>]

\* The children of an anchor: its visible text.
Text(t) == [kind |-> "text", text |-> t, html |-> NoHtml]

\* fromHtml(notebookHtml, { fragment: true }).children
fromHtml(html) == [kind |-> "fragment", text |-> "", html |-> html]

\* An element: properties.href is the empty string when the element has no
\* href, className is the empty sequence when it has none, and title stands
\* for every other property.
Element(tag, href, classes, title, text) ==
  [tagName |-> tag,
   properties |-> [href |-> href, className |-> classes, title |-> title,
                   dataNotebookUrl |-> ""],
   children |-> Text(text)]

Anchor(href, text) == Element("a", href, <<>>, "", text)

\* The trees the transform is run on: the same link twice; two links, one of
\* which no fetch can resolve; and a link beside nodes that do not qualify
\* (another suffix, another tag, no href, the suffix in upper case, a query
\* string after the suffix).
Trees ==
  { <<Anchor(GithubBlobLink, "first"), Anchor(GithubBlobLink, "again")>>,
    <<Anchor(MirrorLink, "mirror"), Anchor(RelativeLink, "local")>>,
    <<Element("a", RawLink, <<"external">>, "tip", "raw"), Anchor(HtmlLink, "page"),
      Element("span", OtherLink, <<>>, "", "span"), Anchor("", "nohref"),
      Anchor(UpperLink, "upper"), Anchor(VersionLink, "versioned")>> }

(***************************************************************************)
(* Rendering: cellToHtml and notebookToHtml                                *)
(***************************************************************************)

\* parts.join('') of fragments that are inserted as they are.
RECURSIVE Join(_)
Join(parts) == IF Len(parts) = 0 THEN "" ELSE Head(parts) \o Join(Tail(parts))

\* The characters of parts.join(sep).
RECURSIVE JoinChars(_, _)
JoinChars(parts, sep) ==
  IF Len(parts) = 0 THEN <<>>
  ELSE IF Len(parts) = 1 THEN Chars(parts[1])
  ELSE Chars(parts[1]) \o sep \o JoinChars(Tail(parts), sep)

\* Array.isArray(v) ? v.join('') : v, the text of a JSON value: undefined stays
\* undefined.
TextOf(v) ==
  IF v.kind = "undefined" THEN [defined |-> FALSE, chars |-> <<>>]
  ELSE [defined |-> TRUE, chars |-> JoinChars(v.parts, <<>>)]

\* JavaScript truthiness of such a value: an array is truthy, a string is
\* unless it is empty, undefined is not.
TruthyText(v) ==
  \/ v.kind = "array"
  \/ v.kind = "string" /\ v.parts[1] # ""

\* String(v) of such a value inside a template literal: an array prints its
\* elements separated by commas.
RECURSIVE JoinCommas(_)
JoinCommas(parts) ==
  IF Len(parts) = 0 THEN ""
  ELSE IF Len(parts) = 1 THEN parts[1]
  ELSE parts[1] \o "," \o JoinCommas(Tail(parts))

\* text.replace(/c/g, rep): every occurrence of the character, left to right.
RECURSIVE ReplaceAll(_, _, _)
ReplaceAll(s, c, rep) ==
  IF Len(s) = 0 THEN <<>>
  ELSE (IF Head(s) = c THEN rep ELSE <<Head(s)>>) \o ReplaceAll(Tail(s), c, rep)

AmpEntity == <<"&", "a", "m", "p", ";">>
LtEntity == <<"&", "l", "t", ";">>
GtEntity == <<"&", "g", "t", ";">>
QuotEntity == <<"&", "q", "u", "o", "t", ";">>
AposEntity == <<"&", "#", "x", "2", "7", ";">>

\* A variant that replaces the ampersand last, after the entities are there.
escapeHtmlAmpersandLast(text) ==
  ReplaceAll(
    ReplaceAll(
      ReplaceAll(
        ReplaceAll(
          ReplaceAll(text, "<", LtEntity),
          ">", GtEntity),
        "\"", QuotEntity),
      "'", AposEntity),
    "&", AmpEntity)

\* escapeHtml: the five replacements in the order of the source.
escapeHtml(text) ==
  ReplaceAll(
    ReplaceAll(
      ReplaceAll(
        ReplaceAll(
          ReplaceAll(text, "&", AmpEntity),
          "<", LtEntity),
        ">", GtEntity),
      "\"", QuotEntity),
    "'", AposEntity)

\* A block of rendered markup: the class of its div, how its text got there
\* (escaped by escapeHtml, produced by the markdown processor, inserted
\* verbatim, or a label), and the text.
Block(class, via, text) == [class |-> class, via |-> via, text |-> text]

\* What a synchronous piece of rendering ends in: its blocks, or a TypeError.
Rendered(blocks) == [throws |-> FALSE, blocks |-> blocks]
TypeError == [throws |-> TRUE, blocks |-> <<>>]

\* `${escapeHtml(text)}` in a div of the class: text.replace throws on undefined.
EscapedBlock(class, text) ==
  IF text.defined
  THEN Rendered(<<Block(class, "escaped", Str(escapeHtml(text.chars)))>>)
  ELSE TypeError

\* output.data[key]
DataValue(data, key) ==
  IF \E k \in 1..Len(data) : data[k].key = key
  THEN data[CHOOSE k \in 1..Len(data) : data[k].key = key].value
  ELSE Undefined

\* A variant that renders the entries of the mapping in the order of its keys.
RECURSIVE formatDataInKeyOrder(_)
formatDataInKeyOrder(data) ==
  IF Len(data) = 0 THEN <<>>
  ELSE LET e == Head(data)
       IN  (IF ~TruthyText(e.value) THEN <<>>
            ELSE IF e.key = "text/plain"
            THEN <<Block("notebook-text-output", "escaped",
                         Str(escapeHtml(TextOf(e.value).chars)))>>
            ELSE IF e.key = "image/png"
            THEN <<Block("notebook-image-output", "verbatim",
                         "data:image/png;base64," \o JoinCommas(e.value.parts))>>
            ELSE IF e.key = "text/html"
            THEN <<Block("notebook-html-output", "verbatim", Join(e.value.parts))>>
            ELSE <<>>)
           \o formatDataInKeyOrder(Tail(data))

\* The execute_result / display_data branch of formatOutput: text/plain, then
\* image/png, then text/html, each if its value is truthy.
formatData(data) ==
  LET plain == DataValue(data, "text/plain")
      png == DataValue(data, "image/png")
      html == DataValue(data, "text/html")
  IN  (IF TruthyText(plain)
       THEN <<Block("notebook-text-output", "escaped", Str(escapeHtml(TextOf(plain).chars)))>>
       ELSE <<>>)
      \o (IF TruthyText(png)
          THEN <<Block("notebook-image-output", "verbatim",
                       "data:image/png;base64," \o JoinCommas(png.parts))>>
          ELSE <<>>)
      \o (IF TruthyText(html)
          THEN <<Block("notebook-html-output", "verbatim", Join(html.parts))>>
          ELSE <<>>)

\* formatOutput
formatOutput(output) ==
  IF output.output_type = "stream"
  THEN EscapedBlock("notebook-stream-output", TextOf(output.text))
  ELSE IF output.output_type \in {"execute_result", "display_data"}
  THEN IF output.hasData THEN Rendered(formatData(output.data)) ELSE Rendered(<<>>)
  ELSE IF output.output_type = "error"
  THEN EscapedBlock("notebook-error-output",
                    [defined |-> TRUE,
                     chars |-> IF output.hasTraceback
                               THEN JoinChars(output.traceback, <<"\n">>)
                               ELSE <<>>])
  ELSE Rendered(<<>>)

\* for (const output of cell.outputs) outputsHtml += formatOutput(output)
RECURSIVE FormatOutputs(_)
FormatOutputs(outputs) ==
  IF Len(outputs) = 0 THEN Rendered(<<>>)
  ELSE LET first == formatOutput(Head(outputs))
           rest == FormatOutputs(Tail(outputs))
       IN  IF first.throws \/ rest.throws THEN TypeError
           ELSE Rendered(first.blocks \o rest.blocks)

\* A variant that tests for null only.
executionLabelNullOnly(prefix, executionCount) ==
  IF executionCount.kind = "number"
  THEN prefix \o ToString(executionCount.value) \o "]:"
  ELSE IF executionCount.kind = "undefined"
  THEN prefix \o "undefined]:"
  ELSE prefix \o " ]:"

\* executionCount !== null && executionCount !== undefined
\*   ? `In [${executionCount}]:` : 'In [ ]:'      (and the same with Out[)
executionLabel(prefix, executionCount) ==
  IF executionCount.kind = "number"
  THEN prefix \o ToString(executionCount.value) \o "]:"
  ELSE prefix \o " ]:"

\* The code branch of cellToHtml: the input label and the escaped source,
\* then, if the cell has outputs, their label and the outputs.
codeCellContent(cell) ==
  LET source == EscapedBlock("notebook-code-content", TextOf(cell.source))
      outputs == IF cell.hasOutputs /\ Len(cell.outputs) > 0
                 THEN FormatOutputs(cell.outputs)
                 ELSE Rendered(<<>>)
  IN  IF source.throws \/ outputs.throws THEN TypeError
      ELSE Rendered(
             <<Block("notebook-execution-count", "label",
                     executionLabel("In [", cell.execution_count))>>
             \o source.blocks
             \o (IF cell.hasOutputs /\ Len(cell.outputs) > 0
                 THEN <<Block("notebook-output-label", "label",
                              executionLabel("Out[", cell.execution_count))>>
                      \o outputs.blocks
                 ELSE <<>>))

\* The content of each sample cell as a code cell, computed once.
CodeCellContents == [c \in SampleCells |-> codeCellContent(c)]

\* The container of one cell:
\* `<div id="notebook-cell-${index}" class="notebook-cell notebook-${cell.cell_type}-cell">`
Container(cell, index, content) ==
  [id |-> "notebook-cell-" \o ToString(index),
   class |-> "notebook-cell notebook-" \o cell.cell_type \o "-cell",
   content |-> content]

\* The promise of cellToHtml(cell, index) once the call has run up to its
\* first await: a markdown cell waits for the markdown processor, a code cell
\* and a cell of any other type have returned, or thrown.
cellToHtml(cell, index) ==
  IF cell.cell_type = "markdown"
  THEN [state |-> "pending", html |-> Container(cell, index, <<>>)]
  ELSE IF cell.cell_type = "code"
  THEN LET content == CodeCellContents[cell]
       IN  IF content.throws
           THEN [state |-> "rejected", html |-> Container(cell, index, <<>>)]
           ELSE [state |-> "fulfilled", html |-> Container(cell, index, content.blocks)]
  ELSE [state |-> "fulfilled", html |-> Container(cell, index, <<>>)]

\* markdownToHtml once processor.process has settled: its result, or on a
\* failure the escaped text in a paragraph, which throws on undefined.
markdownToHtml(markdown, ok) ==
  IF ok
  THEN Rendered(<<Block("notebook-markdown-cell", "remark", Str(markdown.chars))>>)
  ELSE IF markdown.defined
  THEN Rendered(<<Block("notebook-markdown-cell", "escaped",
                        Str(escapeHtml(markdown.chars)))>>)
  ELSE TypeError

\* What markdownToHtml makes of the source of each sample cell, computed once.
MarkdownContents ==
  [c \in SampleCells |-> [ok \in BOOLEAN |-> markdownToHtml(TextOf(c.source), ok)]]

\* The promise of a markdown cell once markdownToHtml has settled.
AfterMarkdown(cell, index, ok) ==
  LET content == MarkdownContents[cell][ok]
  IN  IF content.throws
      THEN [state |-> "rejected", html |-> Container(cell, index, <<>>)]
      ELSE [state |-> "fulfilled", html |-> Container(cell, index, content.blocks)]

\* notebook.cells.map((cell, index) => cellToHtml(cell, index))
cellPromises(notebook) ==
  [k \in 1..Len(notebook.cells) |-> cellToHtml(notebook.cells[k], k - 1)]

\* Promise.all(cellPromises): rejected as soon as one promise is rejected,
\* fulfilled when all are fulfilled, pending otherwise.
PromiseAllCells(promises) ==
  IF \E k \in 1..Len(promises) : promises[k].state = "rejected" THEN "rejected"
  ELSE IF \A k \in 1..Len(promises) : promises[k].state = "fulfilled" THEN "fulfilled"
  ELSE "pending"

\* A variant that joins the containers last to first.
JoinCellsReversed(promises) ==
  [k \in 1..Len(promises) |-> promises[Len(promises) + 1 - k].html]

\* (await Promise.all(cellPromises)).join('\n'): the containers in the order of
\* the array.
JoinCells(promises) == [k \in 1..Len(promises) |-> promises[k].html]

\* notebook.cells.map(...) throws a TypeError when the value has no cells.
RenderThrows(notebook) == ~notebook.hasCells

\* sourceUrl.split('/').pop() || 'notebook.ipynb'
NotebookNames ==
  [u \in Links |->
     LET last == LastSegment(Chars(u))
     IN  IF Len(last) = 0 THEN "notebook.ipynb" ELSE Str(last)]
notebookName(sourceUrl) == NotebookNames[sourceUrl]

\* The fragment notebookToHtml returns, given the joined cells and the icon
\* getFaviconUrl returned: the header link, the icon and the cells.
notebookToHtml(cells, sourceUrl, faviconUrl) ==
  [sourceUrl |-> sourceUrl,
   notebookName |-> notebookName(sourceUrl),
   faviconUrl |-> faviconUrl,
   siteName |-> hostname(sourceUrl),
   cells |-> cells]

(***************************************************************************)
(* Icon resolution: getBestIcon, fallbackSources, generateLetterFavicon    *)
(***************************************************************************)

Digits == <<"0", "1", "2", "3", "4", "5", "6", "7", "8", "9">>
IsDigit(c) == \E d \in 1..Len(Digits) : Digits[d] = c
DigitValue(c) == (CHOOSE d \in 1..Len(Digits) : Digits[d] = c) - 1

\* parseInt of a text of decimal digits followed by anything; -1 stands for NaN.
RECURSIVE ParseDigits(_, _)
ParseDigits(s, acc) ==
  IF Len(s) = 0 \/ ~IsDigit(s[1]) THEN acc
  ELSE ParseDigits(Tail(s), acc * 10 + DigitValue(s[1]))

ParseInt(s) == IF Len(s) = 0 \/ ~IsDigit(s[1]) THEN -1 ELSE ParseDigits(s, 0)

\* The text before the first occurrence of a separator: split(sep)[0].
FirstPart(s, sep) ==
  LET i == IndexOf(s, sep) IN IF i = 0 THEN s ELSE SubSeq(s, 1, i - 1)

\* The size getBestIcon gives one candidate: 16 for 'unknown', else
\* parseInt(sizes.split(' ')[0].split('x')[0]) || 16.
DefaultIconSize == 16
IconSize(sizes) ==
  IF sizes = "unknown" THEN DefaultIconSize
  ELSE LET n == ParseInt(FirstPart(FirstPart(Chars(sizes), <<" ">>), <<"x">>))
       IN  IF n <= 0 THEN DefaultIconSize ELSE n

\* sizeMap after the forEach: a later candidate with the same href overwrites
\* an earlier one.
SizeOf(icons, href) ==
  LET last == CHOOSE i \in 1..Len(icons) :
                /\ icons[i].href = href
                /\ \A j \in (i + 1)..Len(icons) : icons[j].href # href
  IN  IconSize(icons[last].sizes)

\* getBestIcon: the first candidate of the stable descending sort by mapped
\* size, that is the earliest candidate whose mapped size is the largest.
getBestIcon(icons) ==
  LET size == [i \in 1..Len(icons) |-> SizeOf(icons, icons[i].href)]
      best == CHOOSE i \in 1..Len(icons) :
                /\ \A j \in 1..Len(icons) : size[j] <= size[i]
                /\ \A j \in 1..(i - 1) : size[j] < size[i]
  IN  icons[best].href

\* A variant with the first two sources in the other order.
fallbackSourcesSwapped(sourceUrl) ==
  LET domain == hostname(sourceUrl)
  IN  <<"https://icons.duckduckgo.com/ip3/" \o domain \o ".ico",
        "https://www.google.com/s2/favicons?domain=" \o domain \o "&sz=32",
        protocol(sourceUrl) \o "//" \o domain \o "/favicon.ico">>

\* The three fallback sources, in the order of the fallbackSources array.
fallbackSources(sourceUrl) ==
  LET domain == hostname(sourceUrl)
  IN  <<"https://www.google.com/s2/favicons?domain=" \o domain \o "&sz=32",
        "https://icons.duckduckgo.com/ip3/" \o domain \o ".ico",
        protocol(sourceUrl) \o "//" \o domain \o "/favicon.ico">>

\* domain.charAt(0).toUpperCase()
ToUpperCase(c) ==
  IF Ord(c) >= 97 /\ Ord(c) <= 122 THEN Ascii[Ord(c) - 32 - 31] ELSE c

\* generateLetterFavicon(new URL(sourceUrl).hostname): the data URI of a
\* square bearing the first letter of the domain; the SVG text around the
\* letter is the same for every domain.
LetterFavicons ==
  [u \in Links |->
     LET domain == UrlHostname(Chars(u))
     IN  "data:image/svg+xml;base64,<svg><text>"
           \o (IF Len(domain) = 0 THEN "" ELSE ToUpperCase(domain[1]))
           \o "</text></svg>"]
generateLetterFavicon(sourceUrl) == LetterFavicons[sourceUrl]

(***************************************************************************)
(* State                                                                   *)
(***************************************************************************)

VARIABLES
  cache,      \* the files of the cache directory: file name -> parsed content
  dirExists,  \* the cache directory exists
  opts,       \* the options of the plugin instance of this run
  tpc,        \* where the transform is: idle, mkdir, waiting, returned, rejected
  tree,       \* the element nodes of the tree, in visit order
  orig,       \* the tree as it was handed to the transform
  task,       \* the per-link task of each node
  fav         \* the getFaviconUrl call of each task

vars == <<cache, dirExists, opts, tpc, tree, orig, task, fav>>

\* A node the visitor launched no task for.  A task records the document it
\* holds (notebook), the promise of its async function (result), and what it
\* has done: whether the cache read returned a file, the download requests it
\* issued and the URL it fetched, how the download and the cache write ended,
\* the promises of its cells, and whether its catch block ran.
NoTask ==
  [pc |-> "none", result |-> "none", notebook |-> Null, readOk |-> FALSE,
   downloads |-> 0, rawUrl |-> "", fetched |-> "none", written |-> "none",
   cellPromises |-> <<>>, threw |-> FALSE]

\* No getFaviconUrl call.  A call records how the fetch of the origin page
\* ended (origin: error, status, empty or icons) and the candidates it scraped,
\* the fallback source it is probing (k), how the probes made so far ended
\* (probed, in order), and what it returned.
NoCall ==
  [pc |-> "idle", url |-> "", origin |-> "none", icons |-> <<>>, k |-> 0,
   probed |-> <<>>, result |-> ""]

\* The scraped candidates the origin page can hold (parseFaviconLinks).
ScrapedIcons ==
  { <<>>,
    <<[sizes |-> "16x16", href |-> "https://c.io/a"],
      [sizes |-> "32x32", href |-> "https://c.io/b"],
      [sizes |-> "unknown", href |-> "https://c.io/c"]>> }

\* Candidate lists of up to three link elements, over two hrefs and the sizes
\* attributes a page can declare (or not declare: 'unknown').
IconCandidates ==
  {[sizes |-> z, href |-> h] :
     z \in {"16x16", "32x32", "64x64", "16x16 32x32", "any", "unknown"},
     h \in {"https://c.io/a", "https://c.io/b"}}
IconLists ==
  {<<a>> : a \in IconCandidates}
    \cup {<<a, b>> : a \in IconCandidates, b \in IconCandidates}
    \cup {<<a, b, c>> : a \in IconCandidates, b \in IconCandidates, c \in IconCandidates}

\* What the fetch of the origin page can end in: an error or a timeout, a
\* non-success status, or a page with its candidates.
OriginOutcomes ==
  {[kind |-> "error", icons |-> <<>>], [kind |-> "status", icons |-> <<>>]}
    \cup {[kind |-> "ok", icons |-> c] : c \in ScrapedIcons}

\* The values the body served at a link can parse to: the server of OtherLink
\* serves every sample notebook, the server of AngleLink a notebook that no
\* other link serves.
Bodies(url) ==
  IF url = OtherLink THEN RenderDocs
  ELSE IF url = AngleLink THEN {Null, NbB}
  ELSE JsonValues

\* What the notebook download of a link can end in: fetch throws (a network
\* error, a timeout, or a URL fetch cannot parse), a non-success status, a body
\* that is not JSON, or a body that parses to a value.
FetchOutcomes(url) ==
  IF CanFetch(url)
  THEN {[kind |-> "error", value |-> Null], [kind |-> "status", value |-> Null],
        [kind |-> "parse", value |-> Null]}
         \cup {[kind |-> "value", value |-> v] : v \in Bodies(url)}
  ELSE {[kind |-> "error", value |-> Null]}

\* const defaultOptions: downloadFromGitHub: true
defaultOptions == [downloadFromGitHub |-> TRUE]

Init ==
  /\ cache = <<>>
  /\ dirExists = FALSE
  /\ opts = defaultOptions
  /\ tpc = "idle"
  /\ tree = <<>>
  /\ orig = <<>>
  /\ task = <<>>
  /\ fav = <<>>

(***************************************************************************)
(* The per-link task of htmlPlugins, between two awaits                    *)
(***************************************************************************)

\* A variant that writes the file under the hash without the extension the
\* read path appends.
cacheNotebookWithoutExtension(files, url, data) ==
  [f \in DOMAIN files \cup {urlHash(url)} |->
     IF f = urlHash(url) THEN data ELSE files[f]]

\* fs.writeFile(cachePath, JSON.stringify(data, null, 2)) within cacheNotebook:
\* the files of the cache directory after the write.
cacheNotebook(files, url, data) ==
  [f \in DOMAIN files \cup {cachePath(url)} |->
     IF f = cachePath(url) THEN data ELSE files[f]]

\* The file loadCachedNotebook reads exists (fs.readFile can succeed).
IsCached(files, url) == cachePath(url) \in DOMAIN files

\* JSON.parse(await fs.readFile(cachePath, 'utf-8')) within loadCachedNotebook
loadCachedNotebook(files, url) == files[cachePath(url)]

\* A variant that does not look at the tag.
QualifiesAnyTag(node) ==
  /\ node.properties.href # ""
  /\ EndsWith(Chars(node.properties.href), IpynbSuffix)

\* if (node.tagName === "a" && node.properties?.href) ... href.endsWith('.ipynb')
Qualifies(node) ==
  /\ node.tagName = "a"
  /\ node.properties.href # ""
  /\ EndsWith(Chars(node.properties.href), IpynbSuffix)

\* Variants of the download guard: one that forgets the cache result, one that
\* forgets the option.
ShouldDownloadAlways(notebook, o) == o.downloadFromGitHub
ShouldDownloadWithoutOption(notebook, o) == ~Truthy(notebook)

\* if (!notebook && opts.downloadFromGitHub)
ShouldDownload(notebook, o) == ~Truthy(notebook) /\ o.downloadFromGitHub

\* A variant without the try/catch: the task's promise rejects.
Uncaught(t) == [t EXCEPT !.pc = "done", !.threw = TRUE, !.result = "rejected"]

\* catch (error) { console.warn(...) }: the task's promise fulfils.
Caught(t) == [t EXCEPT !.pc = "done", !.threw = TRUE, !.result = "fulfilled"]

\* A variant that also takes the line the source leaves commented out:
\* node.children = [{ type: "text", value: "Notebook unavailable" }]
MarkUnavailableWithMessage(node) ==
  [node EXCEPT !.properties.className = <<"notebook-link-unavailable">>,
               !.children = Text("Notebook unavailable")]

\* node.properties = { ...node.properties, className: ["notebook-link-unavailable"] }
MarkUnavailable(node) ==
  [node EXCEPT !.properties.className = <<"notebook-link-unavailable">>]

\* node.tagName = "div"; node.properties = { className, "data-notebook-url" };
\* node.children = fromHtml(notebookHtml).children
Embed(node, href, html) ==
  [tagName |-> "div",
   properties |-> [href |-> "", className |-> <<"notebook-wrapper-container">>,
                   title |-> "", dataNotebookUrl |-> href],
   children |-> fromHtml(html)]

\* A variant that settles with the first promise that does (Promise.race).
PromiseRace(tasks) ==
  IF \E i \in 1..Len(tasks) : tasks[i].result = "rejected" THEN "rejected"
  ELSE IF (\E i \in 1..Len(tasks) : tasks[i].result = "fulfilled")
          \/ (\A i \in 1..Len(tasks) : tasks[i].result = "none")
  THEN "fulfilled"
  ELSE "pending"

\* Promise.all(promises): rejected as soon as one promise is rejected,
\* fulfilled when all are fulfilled, pending otherwise.
PromiseAll(tasks) ==
  IF \E i \in 1..Len(tasks) : tasks[i].result = "rejected" THEN "rejected"
  ELSE IF \A i \in 1..Len(tasks) : tasks[i].result \in {"none", "fulfilled"}
  THEN "fulfilled"
  ELSE "pending"

\* The task from "if (notebook)" on, up to its next await: with a document it
\* starts notebookToHtml (which throws at once on a value without cells, and
\* else calls cellToHtml on every cell and awaits Promise.all), without one it
\* marks the link unavailable.  The pair of the task and its
\* node.
AfterAcquire(t, node) ==
  IF Truthy(t.notebook)
  THEN IF RenderThrows(t.notebook)
       THEN <<Caught(t), node>>
       ELSE <<[t EXCEPT !.pc = "cells", !.cellPromises = cellPromises(t.notebook)], node>>
  ELSE <<[t EXCEPT !.pc = "done", !.result = "fulfilled"], MarkUnavailable(node)>>

\* The task after loadCachedNotebook returned: it downloads when it should,
\* else it goes on with what it has.
AfterRead(t, node, o) ==
  IF ShouldDownload(t.notebook, o)
  THEN <<[t EXCEPT !.pc = "fetch", !.downloads = @ + 1,
                   !.rawUrl = rawUrl(node.properties.href)], node>>
  ELSE AfterAcquire(t, node)

\* A variant that issues the download a second time when the first returned
\* nothing.
AfterDownloadRetrying(t, node) ==
  IF Truthy(t.notebook)
  THEN <<[t EXCEPT !.pc = "write"], node>>
  ELSE IF t.downloads < 2
  THEN <<[t EXCEPT !.pc = "fetch", !.downloads = @ + 1], node>>
  ELSE AfterAcquire(t, node)

\* The task after downloadNotebook returned: if (notebook) await cacheNotebook(..)
AfterDownload(t, node) ==
  IF Truthy(t.notebook)
  THEN <<[t EXCEPT !.pc = "write"], node>>
  ELSE AfterAcquire(t, node)

(***************************************************************************)
(* getFaviconUrl, between two awaits                                       *)
(***************************************************************************)

\* The call up to its first await: new URL(sourceUrl) throws inside the try
\* for a string that is no URL, and again at line 525, outside of it.
getFaviconUrl(sourceUrl) ==
  IF IsUrl(sourceUrl)
  THEN [NoCall EXCEPT !.pc = "origin", !.url = sourceUrl]
  ELSE [NoCall EXCEPT !.pc = "rejected", !.url = sourceUrl]

\* The origin page fetch has ended: a scraped candidate is returned when there
\* is one, else the fallback loop starts with the HEAD request of the first
\* source.
OriginDone(f, out) ==
  IF out.kind = "ok" /\ Len(out.icons) > 0
  THEN [f EXCEPT !.pc = "returned", !.origin = "icons", !.icons = out.icons,
                 !.result = getBestIcon(out.icons)]
  ELSE [f EXCEPT !.pc = "probe", !.k = 1,
                 !.origin = IF out.kind = "ok" THEN "empty" ELSE out.kind]

\* A HEAD request has ended: response.ok returns the source, anything else
\* goes on to the next source, and to the letter icon after the last.
ProbeDone(f, ok) ==
  IF ok
  THEN [f EXCEPT !.pc = "returned", !.probed = Append(@, TRUE),
                 !.result = fallbackSources(f.url)[f.k]]
  ELSE IF f.k < Len(fallbackSources(f.url))
  THEN [f EXCEPT !.k = f.k + 1, !.probed = Append(@, FALSE)]
  ELSE [f EXCEPT !.pc = "returned", !.probed = Append(@, FALSE),
                 !.result = generateLetterFavicon(f.url)]

\* The task after a step of getFaviconUrl: once it has returned the task
\* embeds the fragment, and a rejection is caught.
AfterIcon(t, node, f) ==
  IF f.pc = "returned"
  THEN <<[t EXCEPT !.pc = "done", !.result = "fulfilled"],
         Embed(node, node.properties.href,
               notebookToHtml(JoinCells(t.cellPromises), node.properties.href, f.result))>>
  ELSE IF f.pc = "rejected"
  THEN <<Caught(t), node>>
  ELSE <<t, node>>

\* The call record once the task has gone on: the frame is gone.
AfterReturn(f) == IF f.pc \in {"returned", "rejected"} THEN NoCall ELSE f

(***************************************************************************)
(* Actions                                                                 *)
(***************************************************************************)

\* A build constructs the plugin with its options and calls the transformer
\* on a tree: await ensureCacheDir() is issued.
StartTransform ==
  /\ tpc \in {"idle", "returned", "rejected"}
  /\ \E t \in Trees, d \in BOOLEAN :
       /\ tree' = t
       /\ orig' = t
       /\ opts' = [defaultOptions EXCEPT !.downloadFromGitHub = d]
       /\ task' = [i \in 1..Len(t) |-> NoTask]
       /\ fav' = [i \in 1..Len(t) |-> NoCall]
  /\ tpc' = "mkdir"
  /\ UNCHANGED <<cache, dirExists>>

\* fs.mkdir has ended (a failure is only logged); visit() then launches one
\* task per qualifying node, each running up to its readFile, and the
\* transform awaits Promise.all.
EnsureCacheDirDone ==
  /\ tpc = "mkdir"
  /\ \E ok \in BOOLEAN : dirExists' = (dirExists \/ ok)
  /\ task' = [i \in 1..Len(tree) |->
               IF Qualifies(tree[i])
               THEN [NoTask EXCEPT !.pc = "read", !.result = "pending"]
               ELSE NoTask]
  /\ tpc' = "waiting"
  /\ UNCHANGED <<cache, opts, tree, orig, fav>>

\* loadCachedNotebook has ended: the parsed file, or null when the read (or
\* the parse) failed, as it does when there is no file.
LoadCachedNotebookDone(i) ==
  /\ task[i].pc = "read"
  /\ \E ok \in BOOLEAN :
       /\ ok => dirExists /\ IsCached(cache, tree[i].properties.href)
       /\ LET next == AfterRead(
                        [task[i] EXCEPT
                           !.readOk = ok,
                           !.notebook =
                             IF ok THEN loadCachedNotebook(cache, tree[i].properties.href)
                             ELSE Null],
                        tree[i], opts)
          IN  /\ task' = [task EXCEPT ![i] = next[1]]
              /\ tree' = [tree EXCEPT ![i] = next[2]]
  /\ UNCHANGED <<cache, dirExists, opts, tpc, orig, fav>>

\* downloadNotebook has ended: the parsed body, or null.
DownloadNotebookDone(i) ==
  /\ task[i].pc = "fetch"
  /\ \E out \in FetchOutcomes(tree[i].properties.href) :
       LET next == AfterDownload(
                     [task[i] EXCEPT !.notebook = out.value, !.fetched = out.kind],
                     tree[i])
       IN  /\ task' = [task EXCEPT ![i] = next[1]]
           /\ tree' = [tree EXCEPT ![i] = next[2]]
  /\ UNCHANGED <<cache, dirExists, opts, tpc, orig, fav>>

\* A variant without the try/catch of cacheNotebook: a failed write is thrown
\* into the task, which ends in its catch block.
CacheNotebookThrows(i) ==
  /\ task[i].pc = "write"
  /\ \E ok \in BOOLEAN :
       /\ ok => dirExists
       /\ cache' = IF ok
                   THEN cacheNotebook(cache, tree[i].properties.href, task[i].notebook)
                   ELSE cache
       /\ LET next == IF ok
                       THEN AfterAcquire([task[i] EXCEPT !.written = "ok"], tree[i])
                       ELSE <<Caught([task[i] EXCEPT !.written = "failed"]), tree[i]>>
          IN  /\ task' = [task EXCEPT ![i] = next[1]]
              /\ tree' = [tree EXCEPT ![i] = next[2]]
  /\ UNCHANGED <<dirExists, opts, tpc, orig, fav>>

\* cacheNotebook has ended: the file is written, or the failure is logged.
CacheNotebookDone(i) ==
  /\ task[i].pc = "write"
  /\ \E ok \in BOOLEAN :
       /\ ok => dirExists
       /\ cache' = IF ok
                   THEN cacheNotebook(cache, tree[i].properties.href, task[i].notebook)
                   ELSE cache
       /\ LET next == AfterAcquire(
                        [task[i] EXCEPT !.written = IF ok THEN "ok" ELSE "failed"],
                        tree[i])
          IN  /\ task' = [task EXCEPT ![i] = next[1]]
              /\ tree' = [tree EXCEPT ![i] = next[2]]
  /\ UNCHANGED <<dirExists, opts, tpc, orig, fav>>

\* processor.process has settled for markdown cell k of the notebook of task
\* i.  Once the task has left Promise.all the result goes nowhere.
MarkdownToHtmlDone(i, k) ==
  /\ task[i].pc = "cells"
  /\ task[i].cellPromises[k].state = "pending"
  /\ \E ok \in BOOLEAN :
       task' = [task EXCEPT
                  ![i].cellPromises[k] = AfterMarkdown(task[i].notebook.cells[k], k - 1, ok)]
  /\ UNCHANGED <<cache, dirExists, opts, tpc, tree, orig, fav>>

\* Promise.all(cellPromises) has settled.  Fulfilled, notebookToHtml calls
\* getFaviconUrl, which runs up to the fetch of the origin page; rejected, the
\* exception ends in the catch block of the task.
CellsDone(i) ==
  /\ task[i].pc = "cells"
  /\ PromiseAllCells(task[i].cellPromises) # "pending"
  /\ LET f == IF PromiseAllCells(task[i].cellPromises) = "fulfilled"
              THEN getFaviconUrl(tree[i].properties.href)
              ELSE NoCall
         next == IF PromiseAllCells(task[i].cellPromises) = "fulfilled"
                 THEN AfterIcon([task[i] EXCEPT !.pc = "icon"], tree[i], f)
                 ELSE <<Caught(task[i]), tree[i]>>
     IN  /\ fav' = [fav EXCEPT ![i] = AfterReturn(f)]
         /\ task' = [task EXCEPT ![i] = next[1]]
         /\ tree' = [tree EXCEPT ![i] = next[2]]
  /\ UNCHANGED <<cache, dirExists, opts, tpc, orig>>

\* The fetch of the origin page has ended.
IconOriginDone(i) ==
  /\ task[i].pc = "icon"
  /\ fav[i].pc = "origin"
  /\ \E out \in OriginOutcomes :
       LET f == OriginDone(fav[i], out)
           next == AfterIcon(task[i], tree[i], f)
       IN  /\ fav' = [fav EXCEPT ![i] = AfterReturn(f)]
           /\ task' = [task EXCEPT ![i] = next[1]]
           /\ tree' = [tree EXCEPT ![i] = next[2]]
  /\ UNCHANGED <<cache, dirExists, opts, tpc, orig>>

\* The HEAD request of a fallback source has ended.
IconProbeDone(i) ==
  /\ task[i].pc = "icon"
  /\ fav[i].pc = "probe"
  /\ \E ok \in BOOLEAN :
       LET f == ProbeDone(fav[i], ok)
           next == AfterIcon(task[i], tree[i], f)
       IN  /\ fav' = [fav EXCEPT ![i] = AfterReturn(f)]
           /\ task' = [task EXCEPT ![i] = next[1]]
           /\ tree' = [tree EXCEPT ![i] = next[2]]
  /\ UNCHANGED <<cache, dirExists, opts, tpc, orig>>

\* await Promise.all(promises) has settled: the transform returns, or rejects.
PromiseAllDone ==
  /\ tpc = "waiting"
  /\ PromiseAll(task) # "pending"
  /\ tpc' = IF PromiseAll(task) = "fulfilled" THEN "returned" ELSE "rejected"
  /\ UNCHANGED <<cache, dirExists, opts, tree, orig, task, fav>>

\* A step of the task of node i.
TaskStep(i) ==
  \/ LoadCachedNotebookDone(i)
  \/ DownloadNotebookDone(i)
  \/ CacheNotebookDone(i)
  \/ \E k \in 1..Len(task[i].cellPromises) : MarkdownToHtmlDone(i, k)
  \/ CellsDone(i)
  \/ IconOriginDone(i)
  \/ IconProbeDone(i)

Next ==
  \/ StartTransform
  \/ EnsureCacheDirDone
  \/ \E i \in 1..Len(tree) : LoadCachedNotebookDone(i)
  \/ \E i \in 1..Len(tree) : DownloadNotebookDone(i)
  \/ \E i \in 1..Len(tree) : CacheNotebookDone(i)
  \/ \E i \in 1..Len(tree) : \E k \in 1..Len(task[i].cellPromises) : MarkdownToHtmlDone(i, k)
  \/ \E i \in 1..Len(tree) : CellsDone(i)
  \/ \E i \in 1..Len(tree) : IconOriginDone(i)
  \/ \E i \in 1..Len(tree) : IconProbeDone(i)
  \/ PromiseAllDone

Spec == Init /\ [][Next]_vars

(***************************************************************************)
(* The transform on one link whose server serves every sample notebook     *)
(***************************************************************************)

\* The transformer is called once, on a tree with a link to OtherLink.
RenderStart ==
  /\ tpc = "idle"
  /\ tree' = <<Anchor(OtherLink, "notebook")>>
  /\ orig' = tree'
  /\ opts' = defaultOptions
  /\ task' = <<NoTask>>
  /\ fav' = <<NoCall>>
  /\ tpc' = "mkdir"
  /\ UNCHANGED <<cache, dirExists>>

RenderNext ==
  \/ RenderStart
  \/ EnsureCacheDirDone
  \/ \E i \in 1..Len(tree) : LoadCachedNotebookDone(i)
  \/ \E i \in 1..Len(tree) : DownloadNotebookDone(i)
  \/ \E i \in 1..Len(tree) : CacheNotebookDone(i)
  \/ \E i \in 1..Len(tree) : \E k \in 1..Len(task[i].cellPromises) : MarkdownToHtmlDone(i, k)
  \/ \E i \in 1..Len(tree) : CellsDone(i)
  \/ \E i \in 1..Len(tree) : IconOriginDone(i)
  \/ \E i \in 1..Len(tree) : IconProbeDone(i)
  \/ PromiseAllDone

RenderSpec == Init /\ [][RenderNext]_vars

(***************************************************************************)
(* The transform on two links that differ in one character                 *)
(***************************************************************************)

\* The transformer is called, again and again, on a tree with QueryLink and
\* AngleLink.
KeyStart ==
  /\ tpc \in {"idle", "returned", "rejected"}
  /\ tree' = <<Anchor(QueryLink, "query"), Anchor(AngleLink, "angle")>>
  /\ orig' = tree'
  /\ \E d \in BOOLEAN : opts' = [defaultOptions EXCEPT !.downloadFromGitHub = d]
  /\ task' = <<NoTask, NoTask>>
  /\ fav' = <<NoCall, NoCall>>
  /\ tpc' = "mkdir"
  /\ UNCHANGED <<cache, dirExists>>

KeyNext ==
  \/ KeyStart
  \/ EnsureCacheDirDone
  \/ \E i \in 1..Len(tree) : LoadCachedNotebookDone(i)
  \/ \E i \in 1..Len(tree) : DownloadNotebookDone(i)
  \/ \E i \in 1..Len(tree) : CacheNotebookDone(i)
  \/ \E i \in 1..Len(tree) : \E k \in 1..Len(task[i].cellPromises) : MarkdownToHtmlDone(i, k)
  \/ \E i \in 1..Len(tree) : CellsDone(i)
  \/ \E i \in 1..Len(tree) : IconOriginDone(i)
  \/ \E i \in 1..Len(tree) : IconProbeDone(i)
  \/ PromiseAllDone

KeySpec == Init /\ [][KeyNext]_vars

(***************************************************************************)
(* getFaviconUrl on its own: the icon resolver called on any link string   *)
(***************************************************************************)

IconInit ==
  /\ cache = <<>>
  /\ dirExists = FALSE
  /\ opts = defaultOptions
  /\ tpc = "idle"
  /\ tree = <<>>
  /\ orig = <<>>
  /\ task = <<>>
  /\ \E u \in Links : fav = <<[NoCall EXCEPT !.url = u]>>

\* getFaviconUrl(sourceUrl) is called.
ResolveIconCall ==
  /\ fav[1].pc = "idle"
  /\ fav' = <<getFaviconUrl(fav[1].url)>>
  /\ UNCHANGED <<cache, dirExists, opts, tpc, tree, orig, task>>

\* The fetch of the origin page has ended.
ResolveIconOrigin ==
  /\ fav[1].pc = "origin"
  /\ \E out \in OriginOutcomes \cup {[kind |-> "ok", icons |-> c] : c \in IconLists} :
       fav' = <<OriginDone(fav[1], out)>>
  /\ UNCHANGED <<cache, dirExists, opts, tpc, tree, orig, task>>

\* The HEAD request of a fallback source has ended.
ResolveIconProbe ==
  /\ fav[1].pc = "probe"
  /\ \E ok \in BOOLEAN : fav' = <<ProbeDone(fav[1], ok)>>
  /\ UNCHANGED <<cache, dirExists, opts, tpc, tree, orig, task>>

IconNext == ResolveIconCall \/ ResolveIconOrigin \/ ResolveIconProbe

IconSpec == IconInit /\ [][IconNext]_vars

(***************************************************************************)
(* Properties                                                              *)
(***************************************************************************)

\* The node of task i is still the anchor it was, marked unavailable, with
\* its target and its children as they were.
MarkedUnavailable(i) ==
  /\ tree[i].tagName = "a"
  /\ tree[i].properties.className = <<"notebook-link-unavailable">>
  /\ tree[i].properties.href = orig[i].properties.href
  /\ tree[i].children = orig[i].children

\* The node of task i is the wrapper of the fragment rendered from the task's
\* document, whatever icon was resolved.
Embedded(i) ==
  /\ tree[i].tagName = "div"
  /\ tree[i].properties.className = <<"notebook-wrapper-container">>
  /\ tree[i].properties.dataNotebookUrl = orig[i].properties.href
  /\ tree[i].children.kind = "fragment"
  /\ tree[i].children.html.sourceUrl = orig[i].properties.href
  /\ Len(tree[i].children.html.cells) = Len(task[i].notebook.cells)
  /\ \A k \in 1..Len(task[i].notebook.cells) :
       /\ tree[i].children.html.cells[k].id = "notebook-cell-" \o ToString(k - 1)
       /\ tree[i].children.html.cells[k].class
            = "notebook-cell notebook-" \o task[i].notebook.cells[k].cell_type \o "-cell"

\* The acquisition of task i has ended without a document.
Absent(i) == task[i].pc = "done" /\ ~Truthy(task[i].notebook)

\* C1 as stated: once a link has a cache entry, resolving it issues no
\* download request: a task whose cache lookup ends while the link's file
\* exists does not go on to downloadNotebook.
C1_NoRequestOnceCached ==
  [][\A i \in DOMAIN task :
       (task[i].pc = "read" /\ IsCached(cache, tree[i].properties.href))
         => task'[i].pc # "fetch"]_vars

\* C1, amended: once a link has a cache entry and the lookup reads it, the
\* task holds the cached document and issues no download request, then or
\* later, whatever the remote-fetch setting.
C1_CacheShortCircuit ==
  [][\A i \in DOMAIN task' :
       task'[i].readOk
         => /\ task'[i].downloads = 0
            /\ task'[i].pc # "fetch"
            /\ task'[i].fetched = "none"
            /\ Truthy(task'[i].notebook)
            /\ (i \in DOMAIN task /\ task[i].pc = "read")
                 => task'[i].notebook = loadCachedNotebook(cache, tree[i].properties.href)]_vars

\* A link was served from the cache, with remote fetch enabled, and embedded.
C1_Witness ==
  \E i \in DOMAIN task :
    /\ task[i].readOk
    /\ opts.downloadFromGitHub
    /\ task[i].pc = "done"
    /\ tree[i].tagName = "div"

\* C2: in a tree with a link that resolves to a notebook and a link that
\* resolves to nothing, once both tasks have ended the first node is the
\* wrapper of the rendered fragment and the second is the original anchor,
\* marked unavailable, with its children intact.
C2_LinkFallbackMarking ==
  \A i, j \in DOMAIN task :
    (task[i].pc = "done" /\ IsNotebook(task[i].notebook) /\ Absent(j))
      => Embedded(i) /\ MarkedUnavailable(j)

\* The transform has returned on a tree with one link of each kind.
C2_Witness ==
  /\ tpc = "returned"
  /\ \E i, j \in DOMAIN task :
       /\ task[i].pc = "done" /\ IsNotebook(task[i].notebook) /\ Embedded(i)
       /\ Absent(j) /\ MarkedUnavailable(j)
       /\ tree[i].properties.dataNotebookUrl # tree[j].properties.href

\* C3: whatever fails in one link's task, the transform never rejects, every
\* unfinished task can still take its next step, the node of an unfinished
\* task is untouched, and the node of a finished task is what its own
\* acquisition decides: the wrapper for a notebook, the marked anchor for no
\* document, the untouched node when its rendering threw.
C3_FailureIsolation ==
  /\ tpc # "rejected"
  /\ \A i \in DOMAIN task :
       /\ task[i].result # "rejected"
       /\ task[i].pc \notin {"none", "done"} => ENABLED TaskStep(i)
       /\ task[i].pc # "done" => tree[i] = orig[i]
       /\ task[i].pc = "done" =>
            IF IsNotebook(task[i].notebook) THEN Embedded(i)
            ELSE IF Truthy(task[i].notebook) THEN task[i].threw /\ tree[i] = orig[i]
            ELSE MarkedUnavailable(i)

\* The transform has returned although one task threw while rendering and
\* another failed to download, and a third outcome, an embed, stands beside a
\* failure.
C3_Witness ==
  /\ tpc = "returned"
  /\ \E i, j \in DOMAIN task :
       /\ task[i].threw
       /\ task[j].pc = "done" /\ IsNotebook(task[j].notebook) /\ Embedded(j)

\* C4: once the transform has returned, every task launched for the tree has
\* settled: none is at an await, none can take a step, and no getFaviconUrl
\* call is in flight.
C4_Barrier ==
  tpc = "returned" =>
    \A i \in DOMAIN task :
      /\ task[i].pc \in {"none", "done"}
      /\ task[i].result \in {"none", "fulfilled"}
      /\ fav[i].pc = "idle"
      /\ ~ENABLED TaskStep(i)

\* The transform has returned after two tasks ran to their end.
C4_Witness ==
  /\ tpc = "returned"
  /\ \E i, j \in DOMAIN task : i # j /\ task[i].pc = "done" /\ task[j].pc = "done"

\* C5 as stated: a download that fails at the network, status or parse stage,
\* the last including a body that is no notebook document, leaves the task
\* without a document, writes no cache file, and the link ends marked
\* unavailable.
C5_DownloadFailureIsAbsent ==
  \A i \in DOMAIN task :
    (/\ task[i].pc = "done"
     /\ task[i].fetched # "none"
     /\ (task[i].fetched \in {"error", "status", "parse"} \/ ~IsNotebook(task[i].notebook)))
      => /\ ~Truthy(task[i].notebook)
         /\ task[i].written = "none"
         /\ MarkedUnavailable(i)

C7_RemoteFetchDisabled ==
  \A i \in DOMAIN task :
    (~opts.downloadFromGitHub /\ task[i].pc \notin {"none", "read"} /\ ~task[i].readOk)
      => /\ task[i].pc = "done"
         /\ task[i].notebook = Null
         /\ task[i].downloads = 0
         /\ task[i].rawUrl = ""
         /\ task[i].fetched = "none"
         /\ task[i].written = "none"
         /\ MarkedUnavailable(i)

\* With remote fetch disabled a lookup returned nothing and the link is marked.
C7_Witness ==
  \E i \in DOMAIN task :
    /\ ~opts.downloadFromGitHub
    /\ task[i].pc = "done"
    /\ ~task[i].readOk
    /\ MarkedUnavailable(i)

\* C8 as stated: getFaviconUrl never rejects, whatever string it is given.
C8_IconNeverRejects == \A i \in DOMAIN fav : fav[i].pc # "rejected"

\* The fallback sources in the order the claim gives them.
FaviconByDomain(u) == "https://www.google.com/s2/favicons?domain=" \o hostname(u) \o "&sz=32"
IconByDomain(u) == "https://icons.duckduckgo.com/ip3/" \o hostname(u) \o ".ico"
OriginFaviconIco(u) == protocol(u) \o "//" \o hostname(u) \o "/favicon.ico"
ClaimedFallback(u, n) ==
  IF n = 1 THEN FaviconByDomain(u) ELSE IF n = 2 THEN IconByDomain(u) ELSE OriginFaviconIco(u)

\* C9: when scraping found candidates, one of them is returned and no
\* fallback source is probed; when it found none (fetch failure, non-success
\* status, no candidates), the sources are probed one at a time in the order
\* favicon-by-domain, icon-by-domain, origin /favicon.ico, every probe before
\* the last one made has failed, a successful probe returns its source, and the
\* letter icon is returned only after all three probes failed.
C9_FallbackChainOrder ==
  \A i \in DOMAIN fav :
    LET f == fav[i]
        n == Len(f.probed)
    IN  /\ f.origin = "none" => n = 0
        /\ f.origin = "icons" =>
             /\ f.pc = "returned"
             /\ n = 0
             /\ \E j \in 1..Len(f.icons) : f.icons[j].href = f.result
        /\ f.origin \in {"error", "status", "empty"} =>
             /\ n <= 3
             /\ \A j \in 1..(n - 1) : ~f.probed[j]
             /\ f.pc = "probe" => f.k = n + 1 /\ (n > 0 => ~f.probed[n])
             /\ f.pc = "returned" =>
                  /\ n > 0
                  /\ f.probed[n] => f.result = ClaimedFallback(f.url, n)
                  /\ ~f.probed[n] => n = 3 /\ f.result = generateLetterFavicon(f.url)
                  /\ f.result = generateLetterFavicon(f.url) => n = 3 /\ ~f.probed[n]

\* Scraping failed on the status, the first probe failed, and the second
\* source was returned.
C9_Witness ==
  \E i \in DOMAIN fav :
    /\ fav[i].pc = "returned"
    /\ fav[i].origin = "status"
    /\ fav[i].probed = <<FALSE, TRUE>>
    /\ fav[i].result = IconByDomain(fav[i].url)

\* url.pathname and what follows it: the text after the host.
UrlPath(s) ==
  LET i == IndexOf(s, SchemeSep)
  IN  IF i = 0 THEN s ELSE SubSeq(s, i + 3 + Len(UrlHostname(s)), Len(s))

\* C10 as stated: a link to the hosting web UI with a blob segment is fetched
\* from the raw-content host with that segment removed, and a link already in
\* raw form or from any other host is fetched with its URL unchanged.
C10_LinkNormalization ==
  \A i \in DOMAIN task :
    task[i].downloads > 0 =>
      LET href == orig[i].properties.href
          c == Chars(href)
      IN  IF hostname(href) = "github.com"
          THEN Includes(UrlPath(c), BlobSegment) =>
                 task[i].rawUrl =
                   Str(UrlProtocol(c) \o <<"/", "/">> \o RawHost
                         \o ReplaceFirst(UrlPath(c), BlobSegment, Slash))
          ELSE task[i].rawUrl = href

\* The task of node i holds a notebook document and has started to render it.
Rendering(i) ==
  /\ task[i].pc \in {"cells", "icon", "done"}
  /\ IsNotebook(task[i].notebook)
  /\ Len(task[i].cellPromises) = Len(task[i].notebook.cells)

\* C11 as stated: whatever the shape of a cell or an output (unknown cell
\* type, missing source, unknown output type, stream output without text,
\* result or display output without data, error output without traceback),
\* no cell's rendering fails, the rendering of the notebook does not fail, and
\* the link ends embedded with a container for every cell.
C11_LocalRenderDegradation ==
  \A i \in DOMAIN task :
    Rendering(i) =>
      /\ \A k \in 1..Len(task[i].cellPromises) : task[i].cellPromises[k].state # "rejected"
      /\ ~task[i].threw
      /\ task[i].pc = "done" => Embedded(i)

\* The container html is the one of the cell at the index: its id, its class,
\* and a content made from that cell alone.
RendersCell(html, cell, index) ==
  /\ html.id = "notebook-cell-" \o ToString(index)
  /\ html.class = "notebook-cell notebook-" \o cell.cell_type \o "-cell"
  /\ html.content =
       IF cell.cell_type = "code" THEN codeCellContent(cell).blocks
       ELSE IF cell.cell_type = "markdown"
       THEN IF html.content[1].via = "remark"
            THEN markdownToHtml(TextOf(cell.source), TRUE).blocks
            ELSE markdownToHtml(TextOf(cell.source), FALSE).blocks
       ELSE <<>>

\* C14: every cell render that has completed, in whatever order, holds the
\* container of its own cell (id notebook-cell-i for cell i), and once all have
\* completed the rendered body, and the node's children after the embed, have
\* exactly one container per cell, in the order of the cells.
C14_CellOrder ==
  \A i \in DOMAIN task :
    Rendering(i) =>
      /\ \A k \in 1..Len(task[i].cellPromises) :
           task[i].cellPromises[k].state = "fulfilled"
             => RendersCell(task[i].cellPromises[k].html, task[i].notebook.cells[k], k - 1)
      /\ (task[i].pc = "done" /\ ~task[i].threw) =>
           /\ tree[i].children.kind = "fragment"
           /\ Len(tree[i].children.html.cells) = Len(task[i].notebook.cells)
           /\ \A k \in 1..Len(task[i].notebook.cells) :
                RendersCell(tree[i].children.html.cells[k], task[i].notebook.cells[k], k - 1)

\* A notebook of two different markdown cells is embedded, the second cell
\* rendered by the processor and the first by the fallback.
C14_Witness ==
  \E i \in DOMAIN task :
    /\ task[i].pc = "done"
    /\ task[i].notebook.cells = <<MarkdownCell, MarkupCell>>
    /\ tree[i].tagName = "div"
    /\ tree[i].children.html.cells[1].content[1].via = "escaped"
    /\ tree[i].children.html.cells[2].content[1].via = "remark"

\* C12 as stated: distinct link strings derive distinct keys, so the document
\* a cache read returns for a link is one that was stored for that link: a
\* document its own server has served.
C12_KeyDistinctness ==
  \A i \in DOMAIN task :
    task[i].readOk =>
      /\ task[i].notebook \in Bodies(orig[i].properties.href)
      /\ \A j \in DOMAIN tree :
           (Qualifies(orig[j]) /\ orig[j].properties.href # orig[i].properties.href)
             => cachePath(orig[j].properties.href) # cachePath(orig[i].properties.href)

\* C13 as stated: a cache file is written only after a successful download,
\* and only when the link has no file yet (at most once per link); a file that
\* exists is never removed and its content never changes, whatever the
\* interleaving of the tasks of a link that occurs twice.
C13_WriteOnce ==
  [][/\ \A f \in DOMAIN cache : f \in DOMAIN cache' /\ cache'[f] = cache[f]
     /\ \A i \in DOMAIN task :
          (task[i].pc = "write" /\ i \in DOMAIN task' /\ task'[i].written = "ok")
            => /\ task[i].fetched = "value"
               /\ ~IsCached(cache, tree[i].properties.href)]_vars

\* C15 as stated: the size hint of a candidate is the first declared
\* dimension of its sizes attribute, or 16 when it is undeclared or
\* unparseable, and the icon returned is a candidate whose size hint is the
\* maximum over all scraped candidates.
C15_IconSizeSelection ==
  \A i \in DOMAIN fav :
    fav[i].origin = "icons" =>
      \E j \in 1..Len(fav[i].icons) :
        /\ fav[i].icons[j].href = fav[i].result
        /\ \A k \in 1..Len(fav[i].icons) :
             IconSize(fav[i].icons[k].sizes) <= IconSize(fav[i].icons[j].sizes)

\* The blocks of the class in a cell's content.
BlocksOf(content, class) == {b \in 1..Len(content) : content[b].class = class}

\* The classes of the blocks formatOutput produces.
OutputClasses ==
  {"notebook-stream-output", "notebook-text-output", "notebook-image-output",
   "notebook-html-output", "notebook-error-output"}

\* C16: a rendered code cell starts with the input label, In [N]: when its
\* execution count is the integer N and In [ ]: when the count is null or
\* absent; it has an output label, Out[N]: or Out[ ]: by the same rule, if and
\* only if the cell has at least one output, and no output is rendered
\* without that label before it.
C16_ExecutionCount ==
  \A i \in DOMAIN task :
    Rendering(i) =>
      \A k \in 1..Len(task[i].cellPromises) :
        LET cell == task[i].notebook.cells[k]
            content == task[i].cellPromises[k].html.content
            count == cell.execution_count
            inLabel == IF count.kind = "number"
                       THEN "In [" \o ToString(count.value) \o "]:" ELSE "In [ ]:"
            outLabel == IF count.kind = "number"
                        THEN "Out[" \o ToString(count.value) \o "]:" ELSE "Out[ ]:"
            hasOutput == cell.hasOutputs /\ Len(cell.outputs) > 0
        IN  (cell.cell_type = "code" /\ task[i].cellPromises[k].state = "fulfilled") =>
              /\ content[1].class = "notebook-execution-count"
              /\ content[1].text = inLabel
              /\ BlocksOf(content, "notebook-execution-count") = {1}
              /\ BlocksOf(content, "notebook-output-label") = IF hasOutput THEN {3} ELSE {}
              /\ hasOutput => content[3].text = outLabel
              /\ \A b \in 1..Len(content) :
                   content[b].class \in OutputClasses => hasOutput /\ b > 3

\* A notebook of a cell without a count and a cell that was run once is
\* embedded with the labels In [ ]:, Out[ ]:, In [1]: and Out[1]:.
C16_Witness ==
  \E i \in DOMAIN task :
    /\ task[i].pc = "done"
    /\ task[i].notebook.cells = <<NoCountCell, CodeCell>>
    /\ tree[i].tagName = "div"
    /\ tree[i].children.html.cells[1].content[1].text = "In [ ]:"
    /\ tree[i].children.html.cells[1].content[3].text = "Out[ ]:"
    /\ tree[i].children.html.cells[2].content[1].text = "In [1]:"
    /\ tree[i].children.html.cells[2].content[3].text = "Out[1]:"

\* The MIME key is in the mapping; with nonEmpty, its value is moreover not
\* the empty string.
Present(data, key, nonEmpty) ==
  \E e \in 1..Len(data) :
    /\ data[e].key = key
    /\ nonEmpty => ~(data[e].value.kind = "string" /\ data[e].value.parts = <<"">>)

\* The classes of the blocks one output is to render as, in order.
ClaimedClasses(output, nonEmpty) ==
  IF output.output_type = "stream" THEN <<"notebook-stream-output">>
  ELSE IF output.output_type = "error" THEN <<"notebook-error-output">>
  ELSE IF output.output_type \in {"execute_result", "display_data"} /\ output.hasData
  THEN (IF Present(output.data, "text/plain", nonEmpty)
        THEN <<"notebook-text-output">> ELSE <<>>)
       \o (IF Present(output.data, "image/png", nonEmpty)
           THEN <<"notebook-image-output">> ELSE <<>>)
       \o (IF Present(output.data, "text/html", nonEmpty)
           THEN <<"notebook-html-output">> ELSE <<>>)
  ELSE <<>>

\* The same for the outputs of a cell, in their sequence order.
RECURSIVE ClaimedOutputClasses(_, _)
ClaimedOutputClasses(outputs, nonEmpty) ==
  IF Len(outputs) = 0 THEN <<>>
  ELSE ClaimedClasses(Head(outputs), nonEmpty)
         \o ClaimedOutputClasses(Tail(outputs), nonEmpty)

\* The classes of the blocks after the output label of a rendered cell.
OutputClassesOf(content) == [b \in 1..(Len(content) - 3) |-> content[b + 3].class]

\* A code cell of the task of node i that has outputs and has been rendered.
RenderedWithOutputs(i, k) ==
  /\ task[i].notebook.cells[k].cell_type = "code"
  /\ task[i].notebook.cells[k].hasOutputs
  /\ Len(task[i].notebook.cells[k].outputs) > 0
  /\ task[i].cellPromises[k].state = "fulfilled"

\* C17 as stated: the blocks after the output label are those of the cell's
\* outputs in sequence order, and those of a result or display output are one
\* block for every one of text/plain, image/png and text/html that is in its
\* data mapping, in the order text, image, html.
C17_EveryPresentRendered ==
  \A i \in DOMAIN task :
    Rendering(i) =>
      \A k \in 1..Len(task[i].cellPromises) :
        RenderedWithOutputs(i, k) =>
          OutputClassesOf(task[i].cellPromises[k].html.content)
            = ClaimedOutputClasses(task[i].notebook.cells[k].outputs, FALSE)

\* C17, amended: the same, for every one of text/plain, image/png and
\* text/html that is in the data mapping with a value other than the empty
\* string, whatever the order of the keys of the mapping.
C17_OutputOrdering ==
  \A i \in DOMAIN task :
    Rendering(i) =>
      \A k \in 1..Len(task[i].cellPromises) :
        RenderedWithOutputs(i, k) =>
          OutputClassesOf(task[i].cellPromises[k].html.content)
            = ClaimedOutputClasses(task[i].notebook.cells[k].outputs, TRUE)

\* A cell whose display output has its keys in the order html, image, text is
\* embedded with the three blocks in the order text, image, html.
C17_Witness ==
  \E i \in DOMAIN task :
    /\ task[i].pc = "done"
    /\ task[i].notebook.cells = <<NoCountCell>>
    /\ NoCountCell.outputs[1].data[1].key = "text/html"
    /\ tree[i].tagName = "div"
    /\ OutputClassesOf(tree[i].children.html.cells[1].content)
         = <<"notebook-text-output", "notebook-image-output", "notebook-html-output">>

\* The entity of a character, or the character itself.
EntityOf(c) ==
  IF c = "&" THEN "&amp;"
  ELSE IF c = "<" THEN "&lt;"
  ELSE IF c = ">" THEN "&gt;"
  ELSE IF c = "\"" THEN "&quot;"
  ELSE IF c = "'" THEN "&#x27;"
  ELSE c

\* A raw text with each of its characters escaped once, in one pass.
RECURSIVE EscapedOnce(_)
EscapedOnce(raw) ==
  IF Len(raw) = 0 THEN "" ELSE EntityOf(Head(raw)) \o EscapedOnce(Tail(raw))

\* The raw texts of one output that are inserted escaped, in order: the text
\* of a stream, the text/plain of a result or display, the traceback of an
\* error joined with newlines.
RawTexts(output) ==
  IF output.output_type = "stream" THEN <<JoinChars(output.text.parts, <<>>)>>
  ELSE IF output.output_type = "error" THEN <<JoinChars(output.traceback, <<"\n">>)>>
  ELSE IF /\ output.output_type \in {"execute_result", "display_data"}
          /\ output.hasData
          /\ Present(output.data, "text/plain", TRUE)
  THEN <<JoinChars(DataValue(output.data, "text/plain").parts, <<>>)>>
  ELSE <<>>

\* The same for the outputs of a cell, each escaped once.
RECURSIVE EscapedOutputTexts(_)
EscapedOutputTexts(outputs) ==
  IF Len(outputs) = 0 THEN <<>>
  ELSE [r \in 1..Len(RawTexts(Head(outputs))) |-> EscapedOnce(RawTexts(Head(outputs))[r])]
         \o EscapedOutputTexts(Tail(outputs))

IsEscapedOutput(block) == block.class \in OutputClasses /\ block.via = "escaped"
TextOfBlock(blocks) == [b \in 1..Len(blocks) |-> blocks[b].text]

\* C18: in every rendered cell the code source, the stream texts, the
\* text/plain values, the error tracebacks and the markdown of the fallback
\* are the raw text with each of & < > " ' replaced by its entity once: the
\* ampersand of an entity is never escaped again, and no special character is
\* left as it was.
C18_EscapedOnce ==
  \A i \in DOMAIN task :
    Rendering(i) =>
      \A k \in 1..Len(task[i].cellPromises) :
        LET cell == task[i].notebook.cells[k]
            content == task[i].cellPromises[k].html.content
        IN  task[i].cellPromises[k].state = "fulfilled" =>
              /\ cell.cell_type = "code" =>
                   /\ content[2].class = "notebook-code-content"
                   /\ content[2].via = "escaped"
                   /\ content[2].text = EscapedOnce(JoinChars(cell.source.parts, <<>>))
                   /\ TextOfBlock(SelectSeq(content, IsEscapedOutput))
                        = IF cell.hasOutputs THEN EscapedOutputTexts(cell.outputs) ELSE <<>>
              /\ (cell.cell_type = "markdown" /\ content[1].via # "remark") =>
                   /\ content[1].via = "escaped"
                   /\ content[1].text = EscapedOnce(JoinChars(cell.source.parts, <<>>))

\* A cell with the source <script>&"'</script> is embedded with each special
\* character of the source encoded once.
C18_Witness ==
  \E i \in DOMAIN task :
    /\ task[i].pc = "done"
    /\ task[i].notebook.cells = <<NoCountCell>>
    /\ tree[i].tagName = "div"
    /\ tree[i].children.html.cells[1].content[2].text
         = "&lt;script&gt;&amp;&quot;&#x27;&lt;/script&gt;"

\* The links of the model whose string ends with .ipynb.
NotebookLinks ==
  {"https://github.com/o/r/blob/m/a.ipynb", "https://raw.githubusercontent.com/o/r/m/a.ipynb",
   "https://x.org/github.com/b.ipynb", "https://x.org/n.ipynb", "nb/c.ipynb",
   "https://x.org/?a.ipynb", "https://x.org/>a.ipynb"}

\* C19: once the tree has been visited, a node has a task if and only if it is
\* an anchor whose target ends with .ipynb (not .IPYNB, not .ipynb followed by
\* a query string), and every node without a task is as it was handed in.
C19_LinkQualification ==
  tpc \in {"waiting", "returned", "rejected"} =>
    \A i \in DOMAIN tree :
      /\ task[i].pc # "none"
           <=> (orig[i].tagName = "a" /\ orig[i].properties.href \in NotebookLinks)
      /\ task[i].pc = "none" => tree[i] = orig[i]

\* The transform has returned on the tree whose first node is a notebook link:
\* that link was processed, and the span with a notebook target, the anchor
\* with the upper-case suffix and the anchor with the query string were not.
C19_Witness ==
  /\ tpc = "returned"
  /\ Len(tree) = 6
  /\ task[1].pc = "done" /\ tree[1] # orig[1]
  /\ orig[3].tagName = "span" /\ orig[3].properties.href \in NotebookLinks
  /\ orig[5].properties.href = UpperLink /\ orig[6].properties.href = VersionLink
  /\ \A i \in 2..6 : task[i].pc = "none" /\ tree[i] = orig[i]

\* The task of node i is past its cache read.
PastRead(i) == task[i].pc \notin {"none", "read"}

\* The task of node i holds a document whose cache write failed and has gone
\* on from the write.
WriteFailed(i) == task[i].pc # "none" /\ task[i].written = "failed"

\* The exception the task of node i caught came out of the rendering: of a
\* document without cells, of one of its cells, or of the icon resolution.
RenderingThrew(i) ==
  \/ RenderThrows(task[i].notebook)
  \/ PromiseAllCells(task[i].cellPromises) = "rejected"
  \/ ~IsUrl(orig[i].properties.href)

\* C20: a failed mkdir, a failed cache read and a failed cache write do not
\* abort the transform.  The tasks are launched whether or not the directory
\* exists; a read that returned nothing, file or no file, is followed by the
\* download when downloads are enabled; and a failed write leaves the
\* downloaded document with the task, which renders it exactly as it would
\* after a successful write: the link is never marked unavailable, and it is
\* embedded unless the rendering itself threw.
C20_CacheFailuresNonFatal ==
  /\ tpc # "rejected"
  /\ tpc \in {"waiting", "returned"} =>
       \A i \in DOMAIN tree :
         (orig[i].tagName = "a" /\ orig[i].properties.href \in NotebookLinks)
           => task[i].pc # "none"
  /\ \A i \in DOMAIN tree :
       /\ (PastRead(i) /\ ~task[i].readOk /\ opts.downloadFromGitHub)
            => task[i].downloads = 1
       /\ WriteFailed(i) =>
            /\ task[i].fetched = "value"
            /\ Truthy(task[i].notebook)
            /\ task[i].pc \in {"cells", "icon", "done"}
            /\ task[i].pc # "done" => tree[i] = orig[i]
            /\ task[i].pc = "done" =>
                 IF task[i].threw THEN RenderingThrew(i) ELSE Embedded(i)

\* The transform has returned although the directory was never created: a
\* link whose read and whose write both failed is embedded with the document
\* its download returned.
C20_Witness ==
  /\ tpc = "returned"
  /\ ~dirExists
  /\ cache = <<>>
  /\ \E i \in DOMAIN tree :
       /\ ~task[i].readOk
       /\ task[i].downloads = 1
       /\ task[i].written = "failed"
       /\ ~task[i].threw
       /\ Embedded(i)

\* C21: within one run the number of download requests of a link's task
\* changes only in the step in which its cache lookup completes, and only from
\* none to one; a download that returned nothing is followed by no other, and
\* no request is out while the lookup is.
C21_LookupThenOneDownload ==
  [][tpc' # "mkdir" =>
       \A i \in DOMAIN task :
         /\ task'[i].downloads \in {0, 1}
         /\ task'[i].pc = "read" => task'[i].downloads = 0
         /\ task'[i].pc = "fetch" => task'[i].downloads = 1
         /\ task'[i].downloads # task[i].downloads
              => task[i].pc = "read" /\ task[i].downloads = 0
         /\ task[i].fetched # "none"
              => task'[i].pc # "fetch" /\ task'[i].downloads = task[i].downloads]_vars

\* The transform has returned with a link whose lookup found nothing and whose
\* one download failed: the link is marked unavailable, not fetched again.
C21_Witness ==
  /\ tpc = "returned"
  /\ \E i \in DOMAIN tree :
       /\ task[i].pc = "done"
       /\ ~task[i].readOk
       /\ task[i].downloads = 1
       /\ task[i].fetched \in {"error", "status", "parse"}
       /\ tree[i] = MarkUnavailable(orig[i])

\* The elements of a sequence.
Range(seq) == {seq[k] : k \in DOMAIN seq}

\* C22: a node whose task ended without a document is the node handed in plus
\* the marker: same tag, same href, same children, same other properties, and
\* among its class names the marker and every class name it had.
C22_UnavailableFrame ==
  \A i \in DOMAIN task :
    (task[i].pc = "done" /\ ~task[i].threw /\ ~Truthy(task[i].notebook)) =>
      /\ tree[i].tagName = orig[i].tagName
      /\ tree[i].children = orig[i].children
      /\ tree[i].properties.href = orig[i].properties.href
      /\ tree[i].properties.title = orig[i].properties.title
      /\ tree[i].properties.dataNotebookUrl = orig[i].properties.dataNotebookUrl
      /\ "notebook-link-unavailable" \in Range(tree[i].properties.className)
      /\ Range(orig[i].properties.className) \subseteq Range(tree[i].properties.className)

\* C23: when the transform has returned, every anchor whose target ends with
\* .ipynb is either the wrapper of its rendered notebook or the anchor marked
\* unavailable, and never both: none is as it was handed in.
C23_TerminalStates ==
  tpc = "returned" =>
    \A i \in DOMAIN tree :
      (orig[i].tagName = "a" /\ orig[i].properties.href \in NotebookLinks) =>
        /\ Embedded(i) \/ MarkedUnavailable(i)
        /\ ~(Embedded(i) /\ MarkedUnavailable(i))
        /\ tree[i] # orig[i]

====
